---- MODULE Spec2Model ----
(***************************************************************************)
(* The room-view router (OpenRoomsStore) of matrix-react-sdk, as a state   *)
(* machine over its _state ({rooms, currentIndex, group_id}), its pending  *)
(* forwarding event, the alias resolutions in flight and the view_room     *)
(* actions they have handed to the dispatcher.                             *)
(***************************************************************************)
EXTENDS Integers, Sequences, FiniteSets, TLC

(* ------------------------------ bounds --------------------------------- *)

\* longest list of member rooms the group query returns
MaxGroupRooms == 2

\* most alias resolutions under way at once: in flight, or resolved with their
\* view_room not yet processed
MaxPending == 1

(* --------------------------- value universe ---------------------------- *)

\* JavaScript null and undefined (an absent payload field is undefined)
Null == "null"
Undefined == "undefined"

RoomIds == {"!r1", "!r2"}
Aliases == {"#a1"}
Groups == {"+g1", "+g2"}
Events == {"ev1", "ev2"}
Errors == {"M_NOT_FOUND"}

\* JavaScript truthiness of the values above (all strings here are non-empty)
Truthy(v) == v \notin {Null, Undefined}

\* this._state.currentIndex = null
NullIndex == -2

\* Array.prototype.findIndex's result when no element matches
NotFound == -1

(* ------------------------------ payloads ------------------------------- *)

\* a dispatched action: every field the router reads, undefined when absent
Payload(a) ==
  [action |-> a, room_id |-> Undefined, room_alias |-> Undefined,
   event_id |-> Undefined, highlighted |-> Undefined, auto_join |-> Undefined,
   oob_data |-> Undefined, group_id |-> Undefined, event |-> Undefined,
   err |-> Undefined]

ViewRoomPayload(r, alias, m) ==
  [Payload("view_room") EXCEPT !.room_id = r, !.room_alias = alias,
     !.event_id = m.event_id, !.highlighted = m.highlighted,
     !.auto_join = m.auto_join, !.oob_data = m.oob_data]

\* the metadata a view_room payload carries besides the room
Metas ==
  { [event_id |-> "$e1", highlighted |-> "true",
     auto_join |-> "true", oob_data |-> "oob"] }

LifecycleActions ==
  {"will_join", "cancel_join", "join_room", "join_room_error", "on_logged_out",
   "reply_to_event", "open_room_settings", "close_settings"}

GroupViewActions == {"view_my_groups", "view_group"}

(* ------------------------- the per-room store -------------------------- *)

\* "no entry": what _getCurrentRoom yields when it returns undefined
NoRoom == [id |-> 0, roomId |-> Undefined, roomAlias |-> Undefined]

\* new RoomViewStore(dispatcher): nothing shown yet
NewRoom(id) == [id |-> id, roomId |-> Null, roomAlias |-> Null]

\* what a RoomViewStore makes of an action arriving on its private dispatcher
RoomViewStoreOnDispatch(room, payload) ==
  CASE payload.action = "view_room" /\ Truthy(payload.room_id) ->
         [room EXCEPT !.roomId = payload.room_id, !.roomAlias = payload.room_alias]
    [] payload.action = "view_room" /\ ~Truthy(payload.room_id)
         /\ Truthy(payload.room_alias) ->
         [room EXCEPT !.roomId = Null, !.roomAlias = payload.room_alias]
    [] payload.action = "view_room_error" ->
         [room EXCEPT !.roomId = payload.room_id, !.roomAlias = payload.room_alias]
    [] payload.action \in GroupViewActions \cup {"on_logged_out"} ->
         [room EXCEPT !.roomId = Null, !.roomAlias = Null]
    [] OTHER -> room

(* ------------------------------- state --------------------------------- *)

VARIABLES
  rooms,            \* _state.rooms: sequence of entries {store, dispatcher}
  currentIndex,     \* _state.currentIndex (0-based) or NullIndex
  group_id,         \* _state.group_id or Null
  forwardingEvent,  \* _forwardingEvent or Null
  registered,       \* ids of entries whose store is registered on its dispatcher
  pending,          \* payloads of the alias resolutions in flight, oldest first
  queued,           \* the view_room payloads _resolveRoomAlias has dispatched
                    \* (asynchronously) and __onDispatch has not yet processed,
                    \* oldest first
  last,             \* what the last step did (observation only)
  aliasSnap,        \* router state before the latest alias-only view_room, if
                    \* that view_room is the most recent dispatch (observation)
  supersededBy      \* room id of a view_room dispatched from outside while
                    \* resolutions were pending, if only steps of resolutions
                    \* have followed since; else Undefined (observation)

\* the invite orchestrator (RoomInvite.js): one start-chat or room-invite
\* operation, from the exported function that opens the address picker to
\* its last dialog
VARIABLES
  pc,               \* where the operation stands: "idle", "picker_start_chat",
                    \* "picker_room_invite", "declined", "chooser",
                    \* "creating_dm", "creating_room", "inviting_new",
                    \* "inviting_existing", "done"
  addrTexts,        \* addrTexts of the handler
  targetRoomId,     \* the room invited to, once known
  inviteRoom,       \* the room variable: what getRoom(roomId) returned
  dmRooms,          \* what DMRoomMap.getDMRoomsForUserId answered (observation)
  myMembership,     \* per room: getMyMembership(), or "unknown" when getRoom
                    \* answers null (observation)
  modals,           \* the Modal.createTrackedDialog calls, in order
  dispatched,       \* the dis.dispatch calls, in order
  createRoomCalls,  \* the createRoom calls (their options), in order
  inviteCalls,      \* the inviteMultipleToRoom calls, in order
  inviterStates,    \* the states the inviter resolved with (observation)
  inviterFatal,     \* inviter.fatal (observation)
  returned,         \* what _showAnyInviteErrors returned, if it has
  failure           \* the error a catch handler received, if any

routerVars ==
  <<rooms, currentIndex, group_id, forwardingEvent, registered, pending,
    queued, last, aliasSnap, supersededBy>>

inviteVars ==
  <<pc, addrTexts, targetRoomId, inviteRoom, dmRooms, myMembership, modals,
    dispatched, createRoomCalls, inviteCalls, inviterStates, inviterFatal,
    returned, failure>>

vars == <<routerVars, inviteVars>>

Ids(rs) == {rs[i].id : i \in 1..Len(rs)}


(* ------------------- the router's working state ------------------------ *)

\* The router state as one handler sees and changes it: _state, the
\* registrations, and a record of what the handler did (delivered: actions
\* dispatched on entries' private dispatchers; created, unregistered: entry
\* ids; taken: ids no new entry may get).
Begin ==
  [group_id |-> group_id, rooms |-> rooms, currentIndex |-> currentIndex,
   registered |-> registered, taken |-> registered \cup Ids(rooms),
   delivered |-> <<>>, created |-> {}, unregistered |-> {}]

\* identity of the first entry a handler constructs, the others of the same
\* handler following it: one that no live or just-dropped entry carries, nor
\* any of the MaxGroupRooms - 1 after it. Identities come from two ranges of
\* MaxGroupRooms each, whichever is free, and from beyond both when neither is
NewId(taken) ==
  IF taken \cap (1..MaxGroupRooms) = {} THEN 1
  ELSE IF taken \cap ((MaxGroupRooms + 1)..(2 * MaxGroupRooms)) = {}
    THEN MaxGroupRooms + 1
    ELSE 1 + CHOOSE i \in taken : \A j \in taken : j <= i

matchesRoom(payload, roomStore) ==
  IF roomStore = NoRoom THEN FALSE
  ELSE IF Truthy(payload.room_alias)
    THEN payload.room_alias = roomStore.roomAlias
    ELSE payload.room_id = roomStore.roomId

_getCurrentRoom(w) ==
  IF w.currentIndex # NullIndex /\ w.currentIndex < Len(w.rooms)
    THEN w.rooms[w.currentIndex + 1]
    ELSE NoRoom

getCurrentRoomStore(w) == _getCurrentRoom(w)

_roomIndex(w, payload) ==
  LET hits == {i \in 0..(Len(w.rooms) - 1) : matchesRoom(payload, w.rooms[i + 1])}
  IN IF hits = {} THEN NotFound
     ELSE CHOOSE i \in hits : \A j \in hits : i <= j

_hasRoom(w, payload) == _roomIndex(w, payload) # NotFound

\* room.dispatcher.dispatch(payload, true) on the entry at 0-based index i:
\* synchronous delivery to the callbacks registered on that dispatcher
DispatchOn(w, i, payload) ==
  LET room == w.rooms[i + 1]
  IN [w EXCEPT
        !.rooms[i + 1] = IF room.id \in w.registered
                           THEN RoomViewStoreOnDispatch(room, payload)
                           ELSE room,
        !.delivered = Append(w.delivered, [payload |-> payload, to |-> room.id])]

\* mutant of _cleanupRooms: resets the state but unregisters no store
_cleanupRoomsKeepsRegistered(w) ==
  [w EXCEPT !.rooms = <<>>,
            !.group_id = Null,
            !.currentIndex = NullIndex]

_cleanupRooms(w) ==
  [w EXCEPT !.registered = w.registered \ Ids(w.rooms),
            !.unregistered = w.unregistered \cup (Ids(w.rooms) \cap w.registered),
            !.rooms = <<>>,
            !.group_id = Null,
            !.currentIndex = NullIndex]

\* mutant of _createRoom: installs the entry but leaves currentIndex alone
_createRoomKeepsIndex(w) ==
  LET id == NewId(w.taken)
  IN [w EXCEPT !.rooms = <<NewRoom(id)>>,
               !.registered = w.registered \cup {id},
               !.created = w.created \cup {id},
               !.taken = w.taken \cup {id}]

_createRoom(w) ==
  LET id == NewId(w.taken)
  IN [w EXCEPT !.rooms = <<NewRoom(id)>>,
               !.currentIndex = 0,
               !.registered = w.registered \cup {id},
               !.created = w.created \cup {id},
               !.taken = w.taken \cup {id}]

\* mutant of _forwardAction: the action goes to the last entry of rooms, not to
\* the current one
_forwardActionToLast(w, payload) ==
  IF w.rooms # <<>>
    THEN DispatchOn(w, Len(w.rooms) - 1, payload)
    ELSE w

_forwardAction(w, payload) ==
  IF _getCurrentRoom(w) # NoRoom
    THEN DispatchOn(w, w.currentIndex, payload)
    ELSE w

_setCurrentGroupRoom(w, index) == [w EXCEPT !.currentIndex = index]

\* mutant of ViewRoomSwitch: the router switches to any entry showing the
\* requested room, whether or not the current entry matches
ViewRoomSwitchToAnyEntry(w, payload) ==
  IF _hasRoom(w, payload)
    THEN [w EXCEPT !.currentIndex = _roomIndex(w, payload)]
    ELSE w

\* mutant of ViewRoomSwitch: a view_room matching the current room tears the
\* entries down instead of switching to the one that has it
ViewRoomSwitchTearsDown(w, payload) ==
  IF matchesRoom(payload, getCurrentRoomStore(w))
    THEN _cleanupRooms(w)
    ELSE w

\* case 'view_room', from the currentStore lookup to the _forwardAction call
ViewRoomSwitch(w, payload) ==
  IF matchesRoom(payload, getCurrentRoomStore(w))
    THEN IF _hasRoom(w, payload)
           THEN [w EXCEPT !.currentIndex = _roomIndex(w, payload)]
           ELSE _cleanupRooms(w)
    ELSE w

\* mutant of ViewRoomEnsure: an entry is created for every view_room
ViewRoomEnsureAlwaysCreates(w) == _createRoom(w)

\* case 'view_room': if (!this.getCurrentRoomStore()) this._createRoom()
ViewRoomEnsure(w) ==
  IF getCurrentRoomStore(w) = NoRoom THEN _createRoom(w) ELSE w

ViewRoomRoute(w, payload) ==
  _forwardAction(ViewRoomEnsure(ViewRoomSwitch(w, payload)), payload)

\* mutant of ViewGroupsRoute: the teardown comes first, so there is no current
\* entry left to forward to
ViewGroupsRouteCleansFirst(w, payload) ==
  _forwardAction(_cleanupRooms(w), payload)

\* case 'view_my_groups', case 'view_group': forward, then tear down
ViewGroupsRoute(w, payload) ==
  _cleanupRooms(_forwardAction(w, payload))

\* mutant of ForwardingSend: the pending event is sent twice
ForwardingSendTwice(payload) ==
  IF Truthy(forwardingEvent)
    THEN <<[action |-> "send_event", room_id |-> payload.room_id,
            event |-> forwardingEvent],
           [action |-> "send_event", room_id |-> payload.room_id,
            event |-> forwardingEvent]>>
    ELSE <<>>

\* the send_event dispatched for a pending forwarding event (none: <<>>)
ForwardingSend(payload) ==
  IF Truthy(forwardingEvent)
    THEN <<[action |-> "send_event", room_id |-> payload.room_id,
            event |-> forwardingEvent]>>
    ELSE <<>>

\* rooms.map(...) of view_group_grid: one fresh entry per member room, each
\* preloaded by a synchronous view_room on its own dispatcher
RECURSIVE GridEntries(_, _)
GridEntries(q, id) ==
  IF q = <<>> THEN <<>>
  ELSE <<RoomViewStoreOnDispatch(NewRoom(id),
            [Payload("view_room") EXCEPT !.room_id = Head(q)])>>
       \o GridEntries(Tail(q), id + 1)

GridDelivered(entries, q) ==
  [i \in 1..Len(entries) |->
     [payload |-> [Payload("view_room") EXCEPT !.room_id = q[i]],
      to |-> entries[i].id]]

\* mutant of ViewGroupGridReplace: the old entries are dropped without the
\* teardown that unregisters them
ViewGroupGridReplaceSkipsCleanup(w, payload, q) ==
  LET entries == GridEntries(q, NewId(w.taken))
      withRooms == [w EXCEPT !.rooms = entries,
                             !.group_id = payload.group_id,
                             !.registered = w.registered \cup Ids(entries),
                             !.created = w.created \cup Ids(entries),
                             !.taken = w.taken \cup Ids(entries),
                             !.delivered = w.delivered \o GridDelivered(entries, q)]
  IN _setCurrentGroupRoom(withRooms, 0)

\* mutant of ViewGroupGridReplace: group_id is not recorded with the new rooms
ViewGroupGridReplaceForgetsGroup(w, payload, q) ==
  LET c == _cleanupRooms(w)
      entries == GridEntries(q, NewId(c.taken))
      withRooms == [c EXCEPT !.rooms = entries,
                             !.registered = c.registered \cup Ids(entries),
                             !.created = c.created \cup Ids(entries),
                             !.taken = c.taken \cup Ids(entries),
                             !.delivered = c.delivered \o GridDelivered(entries, q)]
  IN _setCurrentGroupRoom(withRooms, 0)

\* the body of case 'view_group_grid' when the group differs; q is the result
\* of GroupStore.getGroupRooms(payload.group_id)
ViewGroupGridReplace(w, payload, q) ==
  LET c == _cleanupRooms(w)
      entries == GridEntries(q, NewId(c.taken))
      withRooms == [c EXCEPT !.rooms = entries,
                             !.group_id = payload.group_id,
                             !.registered = c.registered \cup Ids(entries),
                             !.created = c.created \cup Ids(entries),
                             !.taken = c.taken \cup Ids(entries),
                             !.delivered = c.delivered \o GridDelivered(entries, q)]
  IN _setCurrentGroupRoom(withRooms, 0)


(* --------------------------- observations ------------------------------ *)

\* what a step did: kind is "dispatch" (an action from outside processed by
\* __onDispatch), "redispatch" (a resolution succeeded and handed its view_room
\* to the dispatcher: nothing processed yet), "resolved" (__onDispatch
\* processed such a view_room) or "resolve_failed"; matched says whether a
\* view_room matched the room of the entry that was current at that step
Did(kind, payload, w, sent, rid, query) ==
  [payload |-> payload, delivered |-> w.delivered, created |-> w.created,
   unregistered |-> w.unregistered, kind |-> kind, sent |-> sent,
   rid |-> rid, query |-> query,
   matched |-> /\ payload.action = "view_room"
               /\ matchesRoom(payload, getCurrentRoomStore(Begin))]

\* no snapshot: no alias-only view_room is the most recent dispatch
NoSnap == [group_id |-> Null, rooms |-> <<>>, currentIndex |-> NullIndex, rid |-> 0]

\* the router's variables after a handler that ended in working state w
Commit(w) ==
  /\ rooms' = w.rooms
  /\ currentIndex' = w.currentIndex
  /\ group_id' = w.group_id
  /\ registered' = w.registered

(* ------------------------------ actions -------------------------------- *)

\* no error received by a catch handler
NoError == [message |-> Null]

\* the module is loaded and none of its exported functions has been called
InviteIdle ==
  /\ pc = "idle"
  /\ addrTexts = <<>>
  /\ targetRoomId = Undefined
  /\ inviteRoom = Undefined
  /\ dmRooms = <<>>
  /\ myMembership = [r \in RoomIds |-> "unknown"]
  /\ modals = <<>>
  /\ dispatched = <<>>
  /\ createRoomCalls = <<>>
  /\ inviteCalls = <<>>
  /\ inviterStates = <<>>
  /\ inviterFatal = FALSE
  /\ returned = <<>>
  /\ failure = NoError

Init ==
  /\ InviteIdle
  /\ rooms = <<>>
  /\ currentIndex = NullIndex
  /\ group_id = Null
  /\ forwardingEvent = Null
  /\ registered = {}
  /\ pending = <<>>
  /\ queued = <<>>
  /\ last = Did("init", Payload("init"), Begin, <<>>, 0, <<>>)
  /\ aliasSnap = NoSnap
  /\ supersededBy = Undefined

\* mutant of ResolvedViewRoom: the re-dispatch carries the resolved id and the
\* alias but not the event the original view_room pointed at
ResolvedViewRoomDropsEvent(original, result) ==
  [Payload("view_room") EXCEPT
     !.room_id = result,
     !.room_alias = original.room_alias,
     !.auto_join = original.auto_join,
     !.oob_data = original.oob_data]

\* the view_room _resolveRoomAlias dispatches once the alias has resolved
ResolvedViewRoom(original, result) ==
  [Payload("view_room") EXCEPT
     !.room_id = result,
     !.event_id = original.event_id,
     !.highlighted = original.highlighted,
     !.room_alias = original.room_alias,
     !.auto_join = original.auto_join,
     !.oob_data = original.oob_data]

\* pending without its k-th resolution
Without(k) == [i \in 1..(Len(pending) - 1) |->
                 IF i < k THEN pending[i] ELSE pending[i + 1]]

\* case 'view_room' of __onDispatch for a given payload; kind says whether it
\* was dispatched from outside ("dispatch") or by a resolution ("resolved"),
\* waiting is what stays queued on the dispatcher
OnViewRoom(payload, kind, waiting) ==
  LET resolving == ~Truthy(payload.room_id) /\ Truthy(payload.room_alias)
      w == ViewRoomRoute(Begin, payload)
      sent == ForwardingSend(payload)
  IN /\ resolving => Len(pending) + Len(waiting) < MaxPending
     /\ pending' = IF resolving THEN Append(pending, payload) ELSE pending
     /\ queued' = waiting
     /\ Commit(w)
     /\ forwardingEvent' = IF sent # <<>> THEN Null ELSE forwardingEvent
     /\ last' = Did(kind, payload, w, sent, 0, <<>>)
     /\ aliasSnap' = IF resolving
                       THEN [group_id |-> group_id, rooms |-> rooms,
                             currentIndex |-> currentIndex, rid |-> Len(pending) + 1]
                       ELSE NoSnap
     /\ supersededBy' = CASE kind = "resolved" -> supersededBy
                           [] kind # "resolved" /\ Truthy(payload.room_id)
                                /\ pending # <<>> -> payload.room_id
                           [] OTHER -> Undefined
     /\ UNCHANGED inviteVars

\* dis.dispatch({action: 'view_room', ...}) from anywhere in the application
ViewRoom ==
  \E rid \in RoomIds \cup {Undefined}, alias \in Aliases \cup {Undefined}, m \in Metas :
    OnViewRoom(ViewRoomPayload(rid, alias, m), "dispatch", queued)

\* _resolveRoomAlias, the await returning: the server's answer is any room id.
\* dis.dispatch without the sync flag only queues the view_room: the router
\* state stays and nothing is delivered in this step
ResolveSucceeded ==
  \E k \in 1..Len(pending), result \in RoomIds :
    LET payload == ResolvedViewRoom(pending[k], result)
    IN /\ pending' = Without(k)
       /\ queued' = Append(queued, payload)
       /\ last' = Did("redispatch", payload, Begin, <<>>, k, <<>>)
       /\ aliasSnap' = IF k = aliasSnap.rid
                         THEN NoSnap
                         ELSE [aliasSnap EXCEPT !.rid = IF k < @ THEN @ - 1 ELSE @]
       /\ UNCHANGED <<rooms, currentIndex, group_id, forwardingEvent, registered,
                      supersededBy>>
       /\ UNCHANGED inviteVars

\* the dispatcher hands the oldest queued view_room to __onDispatch
QueuedViewRoom ==
  /\ queued # <<>>
  /\ OnViewRoom(Head(queued), "resolved", Tail(queued))

\* _resolveRoomAlias, the await throwing
ResolveFailed ==
  \E k \in 1..Len(pending), err \in Errors :
    LET payload == [Payload("view_room_error") EXCEPT
                      !.room_id = Null,
                      !.room_alias = pending[k].room_alias,
                      !.err = err]
        w == _forwardAction(Begin, payload)
    IN /\ pending' = Without(k)
       /\ Commit(w)
       /\ last' = Did("resolve_failed", payload, w, <<>>, k, <<>>)
       /\ aliasSnap' = IF k = aliasSnap.rid THEN aliasSnap ELSE NoSnap
       /\ UNCHANGED <<forwardingEvent, queued, supersededBy>>
       /\ UNCHANGED inviteVars

\* case 'view_my_groups', case 'view_group'
ViewGroups ==
  \E a \in GroupViewActions :
    LET payload == Payload(a)
        w == ViewGroupsRoute(Begin, payload)
    IN /\ Commit(w)
       /\ last' = Did("dispatch", payload, w, <<>>, 0, <<>>)
       /\ aliasSnap' = NoSnap
       /\ supersededBy' = Undefined
       /\ UNCHANGED <<forwardingEvent, pending, queued>>
       /\ UNCHANGED inviteVars

\* the eight lifecycle cases
Lifecycle ==
  \E a \in LifecycleActions :
    LET payload == Payload(a)
        w == _forwardAction(Begin, payload)
    IN /\ Commit(w)
       /\ last' = Did("dispatch", payload, w, <<>>, 0, <<>>)
       /\ aliasSnap' = NoSnap
       /\ supersededBy' = Undefined
       /\ UNCHANGED <<forwardingEvent, pending, queued>>
       /\ UNCHANGED inviteVars

\* case 'forward_event'
ForwardEvent ==
  \E e \in Events :
    LET payload == [Payload("forward_event") EXCEPT !.event = e]
    IN /\ forwardingEvent' = payload.event
       /\ last' = Did("dispatch", payload, Begin, <<>>, 0, <<>>)
       /\ aliasSnap' = NoSnap
       /\ supersededBy' = Undefined
       /\ UNCHANGED <<rooms, currentIndex, group_id, registered, pending, queued>>
       /\ UNCHANGED inviteVars

\* the lists of member rooms GroupStore.getGroupRooms may return
GroupQueries == UNION {[1..n -> RoomIds] : n \in 0..MaxGroupRooms}

\* case 'view_group_grid'
ViewGroupGrid ==
  \E g \in Groups, q \in GroupQueries :
    LET payload == [Payload("view_group_grid") EXCEPT !.group_id = g]
        differs == payload.group_id # group_id
        w == IF differs THEN ViewGroupGridReplace(Begin, payload, q) ELSE Begin
    IN /\ Commit(w)
       /\ last' = Did("dispatch", payload, w, <<>>, 0, IF differs THEN q ELSE <<>>)
       /\ aliasSnap' = NoSnap
       /\ supersededBy' = Undefined
       /\ UNCHANGED <<forwardingEvent, pending, queued>>
       /\ UNCHANGED inviteVars

Next ==
  \/ ViewRoom
  \/ ResolveSucceeded
  \/ QueuedViewRoom
  \/ ResolveFailed
  \/ ViewGroups
  \/ Lifecycle
  \/ ForwardEvent
  \/ ViewGroupGrid

Spec == Init /\ [][Next]_vars


(* ------------------------ the invite orchestrator ---------------------- *)

\* most addresses the address picker hands over
MaxAddrs == 2

MxUserIds == {"@u1", "@u2"}
Emails == {"e1"}
Addresses == MxUserIds \cup Emails

\* getAddressType of UserAddress
getAddressType(a) == IF a \in MxUserIds THEN "mx-user-id" ELSE "email"

NoRepeat(s) == \A i, j \in 1..Len(s) : i # j => s[i] # s[j]

\* what the address picker passes as addrs: entries with an address text
Addr(a) == [address |-> a, addressType |-> getAddressType(a)]

AddrLists ==
  {[i \in 1..Len(s) |-> Addr(s[i])] :
     s \in {t \in UNION {[1..n -> Addresses] : n \in 0..MaxAddrs} : NoRepeat(t)}}

\* addrs.map(addr => addr.address)
AddrTexts(addrs) == [i \in 1..Len(addrs) |-> addrs[i].address]

\* the id createRoom resolves with
NewRoomIds == {"!new"}

\* room.name of a room the client knows
RoomNames == {"Lobby"}

\* the outcome of one address in the inviter's states
Outcomes == {"success", "error", "pending"}

\* what DMRoomMap.getDMRoomsForUserId may answer
DmLists ==
  {s \in UNION {[1..n -> RoomIds] : n \in 0..Cardinality(RoomIds)} : NoRepeat(s)}

\* getMyMembership() of a room, "unknown" when getRoom answers null
Memberships == {"join", "leave", "unknown"}

\* the errors createRoom may reject with: with a message and without one
CreateErrors == {[message |-> "M_LIMIT_EXCEEDED"], [message |-> Undefined]}

\* reading room.name of null: a TypeError whose message is the engine's and
\* differs between engine versions
TypeErrors ==
  {[message |-> "Cannot read properties of null (reading 'name')"],
   [message |-> "Cannot read property 'name' of null"]}

\* inviter.errorTexts: the reason kept for each address
ErrorTexts ==
  [a \in Addresses |->
     CASE a = "@u1" -> "User not found"
       [] a = "@u2" -> "Not permitted"
       [] OTHER -> "Bad email"]

\* the inviter handed on by inviteMultipleToRoom
Inviter(isFatal) == [fatal |-> isFatal, errorTexts |-> ErrorTexts]

getErrorText(inviter, addr) == inviter.errorTexts[addr]

\* a Modal.createTrackedDialog call; title and description are lists of text
\* parts (a template with its arguments, lines joined by a separator)
Dialog(component, name, title, description, userId, onFinished) ==
  [component |-> component, name |-> name, title |-> title,
   description |-> description, userId |-> userId, onFinished |-> onFinished]

ErrorDialog(name, title, description) ==
  Dialog("dialogs.ErrorDialog", name, title, description, Undefined, Undefined)

\* the address picker an exported function opens, with its onFinished handler
AddressPickerDialog(name, title, description, onFinished) ==
  Dialog("dialogs.AddressPickerDialog", name, title, description, Undefined,
         onFinished)

\* err && err.message ? err.message : _t("Operation failed")
FailureDescription(e) ==
  IF Truthy(e.message) THEN <<<<e.message>>>> ELSE <<<<"Operation failed">>>>

\* the component and its onNewDMClick / onExistingRoomSelected dispatches
ChatCreateOrReuseDialog(user) ==
  Dialog("views.dialogs.ChatCreateOrReuseDialog", "Create or Reuse", <<>>, <<>>,
         user, Undefined)

StartChatPayload(user) == [action |-> "start_chat", user_id |-> user]

ExistingRoomPayload(roomId) == [action |-> "view_room", room_id |-> roomId]

\* the state of the operation as one handler sees and changes it
InviteBegin ==
  [pc |-> pc, addrTexts |-> addrTexts, targetRoomId |-> targetRoomId,
   inviteRoom |-> inviteRoom, dmRooms |-> dmRooms, myMembership |-> myMembership,
   modals |-> modals, dispatched |-> dispatched,
   createRoomCalls |-> createRoomCalls, inviteCalls |-> inviteCalls,
   inviterStates |-> inviterStates, inviterFatal |-> inviterFatal,
   returned |-> returned, failure |-> failure]

InviteCommit(o) ==
  /\ pc' = o.pc
  /\ addrTexts' = o.addrTexts
  /\ targetRoomId' = o.targetRoomId
  /\ inviteRoom' = o.inviteRoom
  /\ dmRooms' = o.dmRooms
  /\ myMembership' = o.myMembership
  /\ modals' = o.modals
  /\ dispatched' = o.dispatched
  /\ createRoomCalls' = o.createRoomCalls
  /\ inviteCalls' = o.inviteCalls
  /\ inviterStates' = o.inviterStates
  /\ inviterFatal' = o.inviterFatal
  /\ returned' = o.returned
  /\ failure' = o.failure

\* mutant of inviteMultipleToRoom: only the first address reaches the inviter
inviteMultipleToRoomFirstOnly(roomId, addrs) ==
  <<roomId, IF addrs = <<>> THEN <<>> ELSE <<addrs[1]>>>>

\* new MultiInviter(roomId).invite(addrs): the call, by its room and addresses
inviteMultipleToRoom(roomId, addrs) == <<roomId, addrs>>

_isDmChat(texts) ==
  Len(texts) = 1 /\ getAddressType(texts[1]) = "mx-user-id"

\* mutant of _getDirectMessageRooms: every known direct-message room counts,
\* joined or not
_getDirectMessageRoomsAnyMembership(dm, membership) == dm

_getDirectMessageRooms(dm, membership) ==
  SelectSeq(dm, LAMBDA d : membership[d] # "unknown" /\ membership[d] = "join")

\* createRoom(opts): the call is recorded by its dmUserId option
createRoom(o, dmUserId, next) ==
  [o EXCEPT !.createRoomCalls = Append(o.createRoomCalls, dmUserId),
            !.pc = next]

\* _onStartChatFinished(true, addrs); dm and membership are what the
\* direct-message room index and the room store answer
_onStartChatFinished(o, addrs, dm, membership) ==
  LET texts == AddrTexts(addrs)
      b == [o EXCEPT !.addrTexts = texts]
  IN IF _isDmChat(texts)
       THEN LET seen == [b EXCEPT !.dmRooms = dm, !.myMembership = membership]
            IN IF Len(_getDirectMessageRooms(dm, membership)) > 0
                 THEN [seen EXCEPT
                         !.modals = Append(b.modals, ChatCreateOrReuseDialog(texts[1])),
                         !.pc = "chooser"]
                 ELSE createRoom(seen, texts[1], "creating_dm")
       ELSE IF Len(texts) = 1
         THEN createRoom(b, texts[1], "creating_dm")
         ELSE createRoom(b, Undefined, "creating_room")

\* Object.keys(addrs) and addrs[a] of the states the inviter resolved with,
\* kept as a list of <<address, outcome>> in insertion order
Keys(addrs) == [i \in 1..Len(addrs) |-> addrs[i][1]]
Lookup(addrs, a) == addrs[CHOOSE i \in 1..Len(addrs) : addrs[i][1] = a][2]

\* what _showAnyInviteErrors did: the dialogs it opened, what it returned, and
\* the error it threw instead
Shown(dialogs, result, thrown) ==
  [modals |-> dialogs, returned |-> result, thrown |-> thrown]

\* typeError is what the engine throws if room.name is read of null
_showAnyInviteErrors(addrs, room, inviter, typeError) ==
  LET failedUsers == SelectSeq(Keys(addrs), LAMBDA a : Lookup(addrs, a) = "error")
      errorList == [i \in 1..Len(failedUsers) |->
                      <<failedUsers[i], getErrorText(inviter, failedUsers[i])>>]
  IN IF Len(failedUsers) = 1 /\ inviter.fatal
       THEN IF room = Null
              THEN Shown(<<>>, <<>>, <<typeError>>)
              ELSE Shown(<<ErrorDialog("Failed to invite users to the room",
                                       <<"Failed to invite users to the room:", room>>,
                                       <<<<getErrorText(inviter, failedUsers[1])>>>>)>>,
                         <<addrs>>, <<>>)
       ELSE IF Len(errorList) > 0
         THEN IF room = Null
                THEN Shown(<<>>, <<>>, <<typeError>>)
                ELSE Shown(<<ErrorDialog("Failed to invite the following users to the room",
                                         <<"Failed to invite the following users to the %(roomName)s room:", room>>,
                                         errorList)>>,
                           <<addrs>>, <<>>)
         ELSE Shown(<<>>, <<addrs>>, <<>>)

\* the .catch of the two invite chains
FailedToInvite(o, e) ==
  [o EXCEPT !.modals = Append(o.modals,
                         ErrorDialog("Failed to invite", <<"Failed to invite">>,
                                     FailureDescription(e))),
            !.failure = e,
            !.pc = "done"]

\* the .then(result => _showAnyInviteErrors(...)) of the two invite chains,
\* with the .catch behind it
InviteResult(o, states, room, isFatal, typeError) ==
  LET did == _showAnyInviteErrors(states, room, Inviter(isFatal), typeError)
      seen == [o EXCEPT !.inviteRoom = room,
                        !.modals = o.modals \o did.modals,
                        !.inviterStates = states,
                        !.inviterFatal = isFatal,
                        !.returned = did.returned,
                        !.pc = "done"]
  IN IF did.thrown # <<>> THEN FailedToInvite(seen, did.thrown[1]) ELSE seen

(* ---------------------- actions of the orchestrator -------------------- *)

\* showStartChatInviteDialog()
ShowStartChatInviteDialog ==
  /\ pc = "idle"
  /\ InviteCommit([InviteBegin EXCEPT
                     !.modals = Append(modals,
                                  AddressPickerDialog("Start a chat", <<"Start a chat">>,
                                    <<<<"Who would you like to communicate with?">>>>,
                                    "_onStartChatFinished")),
                     !.pc = "picker_start_chat"])
  /\ UNCHANGED routerVars

\* showTextMessageDialog()
ShowTextMessageDialog ==
  /\ pc = "idle"
  /\ InviteCommit([InviteBegin EXCEPT
                     !.modals = Append(modals,
                                  AddressPickerDialog("Send a text", <<"Send a text">>,
                                    <<<<"Who do you want to send the text to?">>>>,
                                    "_onStartChatFinished")),
                     !.pc = "picker_start_chat"])
  /\ UNCHANGED routerVars

\* showRoomInviteDialog(roomId): its onFinished closes over roomId
ShowRoomInviteDialog ==
  \E roomId \in RoomIds :
    /\ pc = "idle"
    /\ InviteCommit([InviteBegin EXCEPT
                       !.targetRoomId = roomId,
                       !.modals = Append(modals,
                                    AddressPickerDialog("Chat Invite",
                                      <<"Invite new room members">>,
                                      <<<<"Who would you like to add to this room?">>>>,
                                      "_onRoomInviteFinished")),
                       !.pc = "picker_room_invite"])
    /\ UNCHANGED routerVars

\* the address picker of showStartChatInviteDialog or showTextMessageDialog
\* finishes
StartChatFinished ==
  \E shouldInvite \in BOOLEAN, addrs \in AddrLists, dm \in DmLists,
     membership \in [RoomIds -> Memberships] :
    /\ pc = "picker_start_chat"
    /\ InviteCommit(IF shouldInvite
                      THEN _onStartChatFinished(InviteBegin, addrs, dm, membership)
                      ELSE [InviteBegin EXCEPT !.pc = "declined"])
    /\ UNCHANGED routerVars

\* the address picker of showRoomInviteDialog(roomId) finishes
RoomInviteFinished ==
  \E shouldInvite \in BOOLEAN, addrs \in AddrLists :
    /\ pc = "picker_room_invite"
    /\ InviteCommit(
         IF shouldInvite
           THEN [InviteBegin EXCEPT
                   !.addrTexts = AddrTexts(addrs),
                   !.inviteCalls = Append(inviteCalls,
                                     inviteMultipleToRoom(targetRoomId, AddrTexts(addrs))),
                   !.pc = "inviting_existing"]
           ELSE [InviteBegin EXCEPT !.pc = "declined"])
    /\ UNCHANGED routerVars

\* onNewDMClick of the chooser
ChooserNewDM ==
  /\ pc = "chooser"
  /\ InviteCommit([InviteBegin EXCEPT
                     !.dispatched = Append(dispatched, StartChatPayload(addrTexts[1])),
                     !.pc = "done"])
  /\ UNCHANGED routerVars

\* onExistingRoomSelected(roomId) of the chooser, for whatever room id the
\* chooser hands over
ChooserExistingRoom ==
  \E roomId \in RoomIds :
    /\ pc = "chooser"
    /\ InviteCommit([InviteBegin EXCEPT
                       !.dispatched = Append(dispatched, ExistingRoomPayload(roomId)),
                       !.pc = "done"])
    /\ UNCHANGED routerVars

\* createRoom({dmUserId}) resolves: nothing is chained on it
CreateDmRoomResolved ==
  /\ pc = "creating_dm"
  /\ InviteCommit([InviteBegin EXCEPT !.pc = "done"])
  /\ UNCHANGED routerVars

\* createRoom({dmUserId}) rejects
CreateDmRoomRejected ==
  \E e \in CreateErrors :
    /\ pc = "creating_dm"
    /\ InviteCommit([InviteBegin EXCEPT
                       !.modals = Append(modals,
                                    ErrorDialog("Failed to invite user",
                                                <<"Failed to invite user">>,
                                                FailureDescription(e))),
                       !.failure = e,
                       !.pc = "done"])
    /\ UNCHANGED routerVars

\* createRoom() of the multi user chat resolves: the room is looked up (the
\* client may not know it yet) and the invites are started
CreateRoomResolved ==
  \E roomId \in NewRoomIds, room \in RoomNames \cup {Null} :
    /\ pc = "creating_room"
    /\ InviteCommit([InviteBegin EXCEPT
                       !.targetRoomId = roomId,
                       !.inviteRoom = room,
                       !.inviteCalls = Append(inviteCalls,
                                         inviteMultipleToRoom(roomId, addrTexts)),
                       !.pc = "inviting_new"])
    /\ UNCHANGED routerVars

\* createRoom() of the multi user chat rejects
CreateRoomRejected ==
  \E e \in CreateErrors :
    /\ pc = "creating_room"
    /\ InviteCommit(FailedToInvite(InviteBegin, e))
    /\ UNCHANGED routerVars

\* the inviter resolves with one outcome per address; for an existing room the
\* room is looked up now (getRoom may answer null)
InviterResolved ==
  \E outcomes \in [1..Len(addrTexts) -> Outcomes], isFatal \in BOOLEAN,
     found \in RoomNames \cup {Null}, typeError \in TypeErrors :
    /\ pc \in {"inviting_new", "inviting_existing"}
    /\ InviteCommit(InviteResult(InviteBegin,
                                 [i \in 1..Len(addrTexts) |-> <<addrTexts[i], outcomes[i]>>],
                                 IF pc = "inviting_existing" THEN found ELSE inviteRoom,
                                 isFatal, typeError))
    /\ UNCHANGED routerVars

InviteNext ==
  \/ ShowStartChatInviteDialog
  \/ ShowTextMessageDialog
  \/ ShowRoomInviteDialog
  \/ StartChatFinished
  \/ RoomInviteFinished
  \/ ChooserNewDM
  \/ ChooserExistingRoom
  \/ CreateDmRoomResolved
  \/ CreateDmRoomRejected
  \/ CreateRoomResolved
  \/ CreateRoomRejected
  \/ InviterResolved

InviteSpec == Init /\ [][InviteNext]_vars


(* ------------------------- helpers for the claims ---------------------- *)

\* the entries of a rooms sequence by identity, in order
IdSeq(rs) == [i \in 1..Len(rs) |-> rs[i].id]

\* the last step processed a view_room (dispatched from outside or by a
\* resolution that succeeded)
ViewRoomDone == last.kind \in {"dispatch", "resolved"} /\ last.payload.action = "view_room"

(* ------------------------------- claims -------------------------------- *)

\* C1: in every reachable state currentIndex is null or a valid index into
\* rooms (0 <= currentIndex < length of rooms), also after view_group_grid for
\* a group without member rooms.
C1_CurrentIndexValid ==
  currentIndex = NullIndex \/ (0 <= currentIndex /\ currentIndex < Len(rooms))

\* C2: group_id is null whenever rooms is empty and whenever rooms is the single
\* entry a view_room has just created through _createRoom; it is non-null only
\* while rooms is the grid built for that group.
C2_GroupIdOnlyForGrid ==
  /\ rooms = <<>> => group_id = Null
  /\ (ViewRoomDone /\ last.created # {}) => group_id = Null

\* C3: when the resolution of a view_room's alias fails and nothing else was
\* processed since that view_room was dispatched, rooms (the same entries, in
\* order), currentIndex and group_id are what they were before the dispatch.
C3_FailedAliasLeavesRouterAsBefore ==
  (last.kind = "resolve_failed" /\ aliasSnap.rid = last.rid) =>
    /\ IdSeq(rooms) = IdSeq(aliasSnap.rooms)
    /\ currentIndex = aliasSnap.currentIndex
    /\ group_id = aliasSnap.group_id

\* C4: every send_event the router dispatches while processing a view_room
\* carries a resolved room id (never undefined), and the pending forwarding
\* event is cleared by the same step.
C4_SendEventHasRoomId ==
  (ViewRoomDone /\ last.sent # <<>>) =>
    /\ \A i \in 1..Len(last.sent) : last.sent[i].room_id \in RoomIds
    /\ forwardingEvent = Null

\* C5: a view_room dispatched while alias resolutions are pending cancels none
\* of them, and a resolution that succeeds dispatches a view_room with the
\* resolved id and the original event_id, highlighted, room_alias, auto_join
\* and oob_data; no step drops that view_room before it is processed, and it
\* is processed like any view_room: it is delivered to the current entry,
\* whose store then shows the resolved room.
C5_StaleResolutionStillApplies ==
  [][ /\ (last'.kind = "dispatch" /\ last'.payload.action = "view_room") =>
           SubSeq(pending', 1, Len(pending)) = pending
      /\ last'.kind \notin {"redispatch", "resolved"} => queued' = queued
      /\ last'.kind = "redispatch" =>
           /\ last'.rid \in 1..Len(pending)
           /\ queued' = Append(queued, last'.payload)
           /\ last'.payload.action = "view_room"
           /\ last'.payload.room_id \in RoomIds
           /\ last'.payload.room_alias = pending[last'.rid].room_alias
           /\ last'.payload.event_id = pending[last'.rid].event_id
           /\ last'.payload.highlighted = pending[last'.rid].highlighted
           /\ last'.payload.auto_join = pending[last'.rid].auto_join
           /\ last'.payload.oob_data = pending[last'.rid].oob_data
      /\ last'.kind = "resolved" =>
           /\ queued = <<last'.payload>> \o queued'
           /\ currentIndex' # NullIndex /\ currentIndex' < Len(rooms')
           /\ rooms'[currentIndex' + 1].roomId = last'.payload.room_id
           /\ \E i \in 1..Len(last'.delivered) :
                last'.delivered[i] = [payload |-> last'.payload,
                                      to |-> rooms'[currentIndex' + 1].id]
    ]_vars

\* C5 witness: the view_room of a resolution was processed after a view_room
\* for another room had been dispatched while the resolution was pending, and
\* the current entry shows the resolved room.
C5_Witness ==
  /\ last.kind = "resolved"
  /\ supersededBy \in RoomIds
  /\ supersededBy # last.payload.room_id
  /\ _getCurrentRoom(Begin).roomId = last.payload.room_id

\* C6: the entries whose store is registered on its private dispatcher are
\* exactly the entries in rooms: none is dropped while registered, none in
\* rooms is unregistered, and no entry occurs twice.
C6_RegisteredExactlyRooms ==
  /\ registered = Ids(rooms)
  /\ Cardinality(Ids(rooms)) = Len(rooms)
  /\ last.unregistered \cap Ids(rooms) = {}

\* C6 witness: a step unregistered entries and left other entries in rooms.
C6_Witness ==
  /\ last.unregistered # {}
  /\ rooms # <<>>
  /\ registered = Ids(rooms)

\* C7: a view_room with a known room id processed when there is no current
\* entry creates exactly one fresh entry, makes it the only element of rooms
\* with currentIndex 0, and forwards the view_room to it exactly once.
C7_ViewRoomCreatesOneEntry ==
  [][ (/\ last'.kind \in {"dispatch", "resolved"}
       /\ last'.payload.action = "view_room"
       /\ Truthy(last'.payload.room_id)
       /\ (currentIndex = NullIndex \/ currentIndex >= Len(rooms))) =>
        /\ Cardinality(last'.created) = 1
        /\ Len(rooms') = 1
        /\ last'.created = {rooms'[1].id}
        /\ rooms'[1].id \notin Ids(rooms) \cup registered
        /\ currentIndex' = 0
        /\ last'.delivered = <<[payload |-> last'.payload, to |-> rooms'[1].id]>>
    ]_vars

\* C7 witness: a view_room with a known id has just created the only entry.
C7_Witness ==
  /\ ViewRoomDone
  /\ Truthy(last.payload.room_id)
  /\ Cardinality(last.created) = 1
  /\ Len(rooms) = 1
  /\ currentIndex = 0
  /\ Len(last.delivered) = 1

\* a step that processed a view_room matching the room of the entry that was
\* current when it arrived (by alias when the payload has one, else by id)
MatchingViewRoomStep ==
  /\ last'.kind \in {"dispatch", "resolved"}
  /\ last'.payload.action = "view_room"
  /\ currentIndex # NullIndex /\ currentIndex < Len(rooms)
  /\ IF Truthy(last'.payload.room_alias)
       THEN last'.payload.room_alias = rooms[currentIndex + 1].roomAlias
       ELSE last'.payload.room_id = rooms[currentIndex + 1].roomId

\* what such a step does to rooms, the registrations, group_id and
\* currentIndex: the entries and their order stay, none is created or
\* unregistered, group_id stays, currentIndex ends on an entry showing the
\* room, and no other entry's store changes
MatchingViewRoomKeepsRooms ==
  /\ IdSeq(rooms') = IdSeq(rooms)
  /\ registered' = registered
  /\ last'.created = {} /\ last'.unregistered = {}
  /\ group_id' = group_id
  /\ currentIndex' # NullIndex /\ currentIndex' < Len(rooms')
  /\ IF Truthy(last'.payload.room_alias)
       THEN last'.payload.room_alias = rooms'[currentIndex' + 1].roomAlias
       ELSE last'.payload.room_id = rooms'[currentIndex' + 1].roomId
  /\ \A i \in 1..Len(rooms) : i # currentIndex' + 1 => rooms'[i] = rooms[i]

\* C8 as stated: a view_room that matches the current entry's room leaves the
\* rooms sequence (same entries, same order, none unregistered, none created)
\* and group_id unchanged, and currentIndex, which ends on an entry showing
\* that room, is the only field of the router state it may change: the pending
\* forwarding event, the fourth field, stays as it was.
C8_OnlyCurrentIndexMayChange ==
  [][ MatchingViewRoomStep =>
        /\ MatchingViewRoomKeepsRooms
        /\ forwardingEvent' = forwardingEvent
    ]_vars

\* C8, amended: a view_room that matches the current entry's room (by alias
\* when the payload has one, else by id) keeps the entries of rooms and their
\* order, creates and unregisters none, keeps group_id, and leaves currentIndex
\* on an entry showing that room; besides currentIndex it changes the pending
\* forwarding event, and only so: a pending event is sent once and cleared,
\* and without one nothing is sent.
C8_MatchingViewRoomOnlySwitches ==
  [][ MatchingViewRoomStep =>
        /\ MatchingViewRoomKeepsRooms
        /\ forwardingEvent' = Null
        /\ Len(last'.sent) = IF forwardingEvent \in Events THEN 1 ELSE 0
    ]_vars

\* C8 witness: a view_room matched, by alias, the entry that was current in a
\* grid of two or more rooms; nothing was created or unregistered, and the
\* forwarding event that was pending has been sent and cleared.
C8_Witness ==
  /\ ViewRoomDone
  /\ last.matched
  /\ Truthy(last.payload.room_alias)
  /\ Len(rooms) >= 2
  /\ last.created = {} /\ last.unregistered = {}
  /\ Len(last.delivered) = 1
  /\ _getCurrentRoom(Begin).roomAlias = last.payload.room_alias
  /\ group_id # Null
  /\ Len(last.sent) = 1
  /\ forwardingEvent = Null

\* C9: view_group_grid for a group other than the current one unregisters
\* every existing entry, then makes rooms one fresh registered entry per member
\* room of the query, in the query's order, entry i showing member room i after
\* a view_room on its own dispatcher, sets group_id to the payload's and
\* currentIndex to 0.
C9_GridReplacesRooms ==
  [][ (/\ last'.payload.action = "view_group_grid"
       /\ last'.payload.group_id # group_id) =>
        /\ last'.unregistered = Ids(rooms)
        /\ Len(rooms') = Len(last'.query)
        /\ Cardinality(Ids(rooms')) = Len(rooms')
        /\ Ids(rooms') \cap (Ids(rooms) \cup registered) = {}
        /\ last'.created = Ids(rooms')
        /\ registered' = Ids(rooms')
        /\ \A i \in 1..Len(rooms') :
             /\ rooms'[i].roomId = last'.query[i]
             /\ last'.delivered[i] =
                  [payload |-> [Payload("view_room") EXCEPT !.room_id = last'.query[i]],
                   to |-> rooms'[i].id]
        /\ Len(last'.delivered) = Len(rooms')
        /\ group_id' = last'.payload.group_id
        /\ currentIndex' = 0
    ]_vars

\* C9 witness: a grid of two different member rooms has just replaced earlier
\* entries.
C9_Witness ==
  /\ last.payload.action = "view_group_grid"
  /\ Len(last.query) >= 2
  /\ last.query[1] # last.query[2]
  /\ last.unregistered # {}
  /\ Len(rooms) = Len(last.query)
  /\ group_id = last.payload.group_id

\* C10: a view_group_grid dispatched right after a view_group_grid with the
\* same group_id changes none of rooms, currentIndex, group_id, creates no
\* entry and unregisters none.
C10_GridTwiceIsIdempotent ==
  [][ (/\ last.payload.action = "view_group_grid"
       /\ last'.payload.action = "view_group_grid"
       /\ last'.payload.group_id = last.payload.group_id) =>
        /\ rooms' = rooms
        /\ currentIndex' = currentIndex
        /\ group_id' = group_id
        /\ registered' = registered
        /\ last'.created = {} /\ last'.unregistered = {}
        /\ last'.delivered = <<>>
    ]_vars

\* C10 witness: the second of two view_group_grid dispatches for one group
\* of member rooms has been processed and did nothing.
C10_Witness ==
  /\ last.payload.action = "view_group_grid"
  /\ last.payload.group_id = group_id
  /\ rooms # <<>>
  /\ last.created = {} /\ last.unregistered = {} /\ last.delivered = <<>>

\* C11: view_my_groups and view_group first forward the action to the current
\* entry, whose store is still registered at that moment, and only then tear
\* down: every entry is unregistered and the state becomes rooms = [],
\* group_id = null, currentIndex = null, whatever it was before.
C11_GroupViewForwardsThenTearsDown ==
  [][ last'.payload.action \in GroupViewActions =>
        /\ last'.delivered =
             IF currentIndex # NullIndex /\ currentIndex < Len(rooms)
               THEN <<[payload |-> last'.payload, to |-> rooms[currentIndex + 1].id]>>
               ELSE <<>>
        /\ \A i \in 1..Len(last'.delivered) :
             /\ last'.delivered[i].to \in registered
             /\ last'.delivered[i].to \in last'.unregistered
        /\ last'.unregistered = Ids(rooms)
        /\ registered' \cap Ids(rooms) = {}
        /\ last'.created = {}
        /\ rooms' = <<>>
        /\ group_id' = Null
        /\ currentIndex' = NullIndex
    ]_vars

\* C11 witness: a view_group or view_my_groups was forwarded to the current
\* entry of a grid of two rooms, and both entries were then torn down.
C11_Witness ==
  /\ last.payload.action \in GroupViewActions
  /\ Len(last.delivered) = 1
  /\ Cardinality(last.unregistered) = 2
  /\ last.delivered[1].to \in last.unregistered
  /\ rooms = <<>> /\ group_id = Null /\ currentIndex = NullIndex

\* C12: each lifecycle passthrough action is delivered unchanged to the private
\* dispatcher of the current entry only (to no entry when there is no current
\* entry) and leaves rooms, currentIndex, group_id and the pending forwarding
\* event unchanged.
C12_LifecycleGoesToCurrentOnly ==
  [][ last'.payload.action \in LifecycleActions =>
        /\ last'.delivered =
             IF currentIndex # NullIndex /\ currentIndex < Len(rooms)
               THEN <<[payload |-> last'.payload, to |-> rooms[currentIndex + 1].id]>>
               ELSE <<>>
        /\ IdSeq(rooms') = IdSeq(rooms)
        /\ \A i \in 1..Len(rooms) : i # currentIndex + 1 => rooms'[i] = rooms[i]
        /\ currentIndex' = currentIndex
        /\ group_id' = group_id
        /\ forwardingEvent' = forwardingEvent
        /\ registered' = registered
        /\ last'.created = {} /\ last'.unregistered = {} /\ last'.sent = <<>>
    ]_vars

\* C12 witness: a lifecycle action was delivered to the current entry of a grid
\* of two rooms, and to that entry only, while a forwarding event was pending.
C12_Witness ==
  /\ last.payload.action \in LifecycleActions
  /\ Len(rooms) = 2
  /\ currentIndex = 0
  /\ last.delivered = <<[payload |-> last.payload, to |-> rooms[1].id]>>
  /\ forwardingEvent # Null

\* C13: every failed alias resolution delivers exactly one view_room_error
\* (carrying the alias and the error, room_id null) to exactly one entry, the
\* entry that is current when the failure is handled; the failure is never
\* dropped, whatever was processed while the resolution was pending.
C13_FailedAliasAlwaysReported ==
  last.kind = "resolve_failed" =>
    /\ Len(last.delivered) = 1
    /\ last.delivered[1].payload.action = "view_room_error"
    /\ last.delivered[1].payload.room_id = Null
    /\ last.delivered[1].payload.room_alias \in Aliases
    /\ last.delivered[1].payload.err \in Errors
    /\ last.delivered[1].to = _getCurrentRoom(Begin).id

\* the addresses whose outcome in the inviter's states is error
FailedAddrs ==
  {inviterStates[i][1] :
     i \in {j \in 1..Len(inviterStates) : inviterStates[j][2] = "error"}}

\* an invite chain has run to its end: the inviter resolved and
\* _showAnyInviteErrors was called with its states
InviteReported == pc = "done" /\ inviteCalls # <<>>

\* the error reports shown so far, in order
Reports == SelectSeq(modals, LAMBDA d : d.component = "dialogs.ErrorDialog")

\* the choosers shown so far
Choosers ==
  SelectSeq(modals, LAMBDA d : d.component = "views.dialogs.ChatCreateOrReuseDialog")

\* C14: outside the fatal single failure case an error report is shown exactly
\* when some address has outcome error; it is the only report, and it lists
\* each failed address with its own error text and no other address. Without
\* failures nothing is shown. The result set is returned unchanged in all cases.
C14_ListReportIffFailures ==
  (InviteReported /\ ~(inviterFatal /\ Cardinality(FailedAddrs) = 1)) =>
    /\ returned = <<inviterStates>>
    /\ IF FailedAddrs = {}
         THEN Reports = <<>>
         ELSE /\ Len(Reports) = 1
              /\ Reports[1].name = "Failed to invite the following users to the room"
              /\ Len(Reports[1].description) = Cardinality(FailedAddrs)
              /\ {Reports[1].description[i] : i \in 1..Len(Reports[1].description)}
                   = {<<a, ErrorTexts[a]>> : a \in FailedAddrs}

\* C15: when exactly one address failed and the inviter is fatal, exactly one
\* report is shown and its description is that address's error text alone;
\* when the inviter is fatal and two or more addresses failed, the per-address
\* list report is shown instead.
C15_FatalSingleShowsOneMessage ==
  (InviteReported /\ inviterFatal) =>
    /\ Cardinality(FailedAddrs) = 1 =>
         /\ Len(Reports) = 1
         /\ Reports[1].name = "Failed to invite users to the room"
         /\ \A a \in FailedAddrs : Reports[1].description = <<<<ErrorTexts[a]>>>>
    /\ Cardinality(FailedAddrs) >= 2 =>
         /\ Len(Reports) = 1
         /\ Reports[1].name = "Failed to invite the following users to the room"
         /\ Len(Reports[1].description) = Cardinality(FailedAddrs)

\* the address picker was confirmed and it was one of the two whose handler
\* is _onStartChatFinished
StartChatConfirmed ==
  /\ pc \notin {"idle", "picker_start_chat", "picker_room_invite", "declined"}
  /\ modals[1].onFinished = "_onStartChatFinished"

\* a start-chat operation, confirmed with exactly one address that is an
\* account identifier
StartChatDm ==
  /\ StartChatConfirmed
  /\ Len(addrTexts) = 1
  /\ getAddressType(addrTexts[1]) = "mx-user-id"

\* the known direct-message rooms with the user that the caller is joined to
JoinedDmRooms ==
  {dmRooms[i] : i \in {j \in 1..Len(dmRooms) : myMembership[dmRooms[j]] = "join"}}

\* C16: start-chat with exactly one address that is an account identifier: if
\* some known direct-message room with that user is one the caller is joined
\* to, the chooser is shown and no room is created (an existing room chosen
\* dispatches view_room with its id, "new" dispatches start_chat with the user
\* id); otherwise a direct-message room is created and no chooser is shown.
\* Exactly one of the two happens.
C16_ChooserOrNewDm ==
  StartChatDm =>
    IF JoinedDmRooms # {}
      THEN /\ createRoomCalls = <<>>
           /\ Len(Choosers) = 1
           /\ Choosers[1].userId = addrTexts[1]
           /\ Len(modals) = 2
           /\ pc \in {"chooser", "done"}
           /\ pc = "chooser" => dispatched = <<>>
           /\ pc = "done" =>
                /\ Len(dispatched) = 1
                /\ \/ dispatched[1] = StartChatPayload(addrTexts[1])
                   \/ \E chosen \in RoomIds :
                        dispatched[1] = ExistingRoomPayload(chosen)
      ELSE /\ createRoomCalls = <<addrTexts[1]>>
           /\ Choosers = <<>>
           /\ dispatched = <<>>
           /\ pc \in {"creating_dm", "done"}

\* C16 witness: the user has two known direct-message rooms, one joined and
\* one not; the chooser was shown and the joined room chosen.
C16_Witness ==
  /\ StartChatDm
  /\ Len(dmRooms) = 2
  /\ Cardinality(JoinedDmRooms) = 1
  /\ pc = "done"
  /\ createRoomCalls = <<>>
  /\ dispatched = <<ExistingRoomPayload(CHOOSE d \in JoinedDmRooms : TRUE)>>

\* a confirmed start-chat operation that took the multi user branch: the else
\* of _isDmChat(addrTexts) and of addrTexts.length === 1, so more than one
\* address or none at all
StartChatMulti ==
  /\ StartChatConfirmed
  /\ ~_isDmChat(addrTexts)
  /\ Len(addrTexts) # 1

\* C17: start-chat with more than one address (and, by the same branch of the
\* code, with an empty address list) creates one room without options and
\* issues invites only after room creation has succeeded, to the created
\* room, with every given address; if
\* creation fails no invite is issued, exactly one "Failed to invite" report is
\* shown with the error's message (the default message when it has none), and
\* creation is not tried again.
C17_InviteAfterCreation ==
  StartChatMulti =>
    /\ createRoomCalls = <<Undefined>>
    /\ pc = "creating_room" => inviteCalls = <<>> /\ Reports = <<>>
    /\ inviteCalls # <<>> =>
         /\ targetRoomId \in NewRoomIds
         /\ inviteCalls = <<<<targetRoomId, addrTexts>>>>
    /\ (pc = "done" /\ targetRoomId = Undefined) =>
         /\ inviteCalls = <<>>
         /\ failure \in CreateErrors
         /\ Len(Reports) = 1
         /\ Len(modals) = 2
         /\ Reports[1].name = "Failed to invite"
         /\ Reports[1].title = <<"Failed to invite">>
         /\ Reports[1].description =
              IF failure.message # Undefined
                THEN <<<<failure.message>>>>
                ELSE <<<<"Operation failed">>>>

\* C17 witness: the room was created and the one invite call carries the new
\* room and both addresses.
C17_Witness ==
  /\ StartChatMulti
  /\ pc = "inviting_new"
  /\ Len(addrTexts) >= 2
  /\ inviteCalls = <<<<"!new", addrTexts>>>>

\* C18: forward_event only stores the carried event as the pending forwarding
\* event: nothing is forwarded, rooms, currentIndex and group_id stay. Each
\* processed view_room dispatches at most one send_event, carrying the event
\* stored last, and leaves no pending event; no other action (teardown by
\* view_group, view_my_groups or view_group_grid included) clears or sends it.
C18_ForwardEventSentOnceByViewRoom ==
  [][ /\ last'.payload.action = "forward_event" =>
           /\ forwardingEvent' = last'.payload.event
           /\ last'.delivered = <<>> /\ last'.sent = <<>>
           /\ last'.created = {} /\ last'.unregistered = {}
           /\ rooms' = rooms /\ currentIndex' = currentIndex
           /\ group_id' = group_id /\ registered' = registered
      /\ (last'.kind \in {"dispatch", "resolved"} /\ last'.payload.action = "view_room") =>
           /\ Len(last'.sent) = IF forwardingEvent \in Events THEN 1 ELSE 0
           /\ \A i \in 1..Len(last'.sent) :
                /\ last'.sent[i].action = "send_event"
                /\ last'.sent[i].event = forwardingEvent
           /\ forwardingEvent' = Null
      /\ ~(last'.kind \in {"dispatch", "resolved"}
             /\ last'.payload.action \in {"view_room", "forward_event"}) =>
           /\ forwardingEvent' = forwardingEvent
           /\ last'.sent = <<>>
    ]_vars

\* C18 witness: a view_room in a grid has just sent the pending event ev2 and
\* cleared it.
C18_Witness ==
  /\ ViewRoomDone
  /\ Len(last.sent) = 1
  /\ last.sent[1].event = "ev2"
  /\ last.sent[1].room_id \in RoomIds
  /\ forwardingEvent = Null
  /\ group_id # Null

\* C19: when a current entry exists and a view_room with a known id does not
\* match the current entry's room, rooms, currentIndex and group_id stay, no
\* entry is created or torn down, and the view_room is forwarded to the current
\* entry; also when another entry of a grid already shows the requested room:
\* currentIndex is not switched to it.
C19_NonMatchingViewRoomStaysOnCurrent ==
  [][ (/\ last'.kind \in {"dispatch", "resolved"}
       /\ last'.payload.action = "view_room"
       /\ Truthy(last'.payload.room_id)
       /\ currentIndex # NullIndex /\ currentIndex < Len(rooms)
       /\ ~(IF Truthy(last'.payload.room_alias)
              THEN last'.payload.room_alias = rooms[currentIndex + 1].roomAlias
              ELSE last'.payload.room_id = rooms[currentIndex + 1].roomId)) =>
        /\ IdSeq(rooms') = IdSeq(rooms)
        /\ \A i \in 1..Len(rooms) : i # currentIndex + 1 => rooms'[i] = rooms[i]
        /\ currentIndex' = currentIndex
        /\ group_id' = group_id
        /\ registered' = registered
        /\ last'.created = {} /\ last'.unregistered = {}
        /\ last'.delivered =
             <<[payload |-> last'.payload, to |-> rooms[currentIndex + 1].id]>>
    ]_vars

\* C19 witness: in a grid of two rooms a view_room asked for the room the
\* second entry shows, did not match the current (first) entry, and was
\* forwarded to the first entry, which stayed current.
C19_Witness ==
  /\ ViewRoomDone
  /\ ~last.matched
  /\ Truthy(last.payload.room_id)
  /\ Len(rooms) = 2
  /\ group_id # Null
  /\ rooms[2].roomId = last.payload.room_id
  /\ currentIndex = 0
  /\ last.created = {} /\ last.unregistered = {}
  /\ last.delivered = <<[payload |-> last.payload, to |-> rooms[1].id]>>

\* C20: whenever rooms is non-empty, currentIndex is non-null and refers to an
\* entry of rooms, so there is a current entry to forward to; and _createRoom,
\* which overwrites rooms, runs only when rooms is empty. Stated on steps: it
\* holds of every state a step leads to (in the initial state rooms is empty).
C20_OpenEntriesHaveACurrentOne ==
  [][ /\ rooms' # <<>> =>
           /\ currentIndex' # NullIndex
           /\ 0 <= currentIndex' /\ currentIndex' < Len(rooms')
      /\ (/\ last'.kind \in {"dispatch", "resolved"}
          /\ last'.payload.action = "view_room"
          /\ last'.created # {}) =>
           rooms = <<>>
    ]_vars

\* C20 witness: a view_room arrived while a grid of two rooms was open; there
\* was a current entry to take it, and no entry was created.
C20_Witness ==
  /\ ViewRoomDone
  /\ Len(rooms) = 2
  /\ currentIndex # NullIndex /\ currentIndex < Len(rooms)
  /\ last.created = {}
  /\ Len(last.delivered) = 1
  /\ last.delivered[1].to = rooms[currentIndex + 1].id

====
